---- MODULE Spec2Model ----
\* A model of the linear ("bump pointer") arena of arieldon/vulkan-triangle:
\* src/src/arena.h, src/src/arena.c and the way src/src/main.c drives them.
\*
\* Addresses and sizes are machine words: every uintptr_t / size_t expression of
\* the source is evaluated modulo 2^WordBits, as the C build evaluates it.
EXTENDS Integers, Sequences, FiniteSets, TLC

\* ---------------------------------------------------------------- bounds
\* Width of size_t / uintptr_t in bits (scaled down from 64).
WordBits == 8
\* Largest buffer_length and largest buffer start address the general
\* specification binds an arena to.
MaxLen == 3
MaxBase == 2

Modulus == 2 ^ WordBits

\* sizeof(void *) * 2 on the 64-bit target.
DEFAULT_ALIGNMENT == 16

\* The null pointer returned by a failed allocation (offsets are >= 0).
NULL == -1
\* The Arena_Checkpoint variables of main.c that are in scope together: the one
\* of main's device selection and the one of find_queue_families, called from it.
CheckpointVars == {"main", "find_queue_families"}
\* An Arena_Checkpoint variable that holds no checkpoint yet.
NoCheckpoint == [previous_offset |-> NULL, current_offset |-> NULL, at_init |-> FALSE]

\* ------------------------------------------------------------ word maths
RECURSIVE BitAnd(_, _)
\* x & y on machine words.
BitAnd(x, y) ==
    IF x = 0 \/ y = 0 THEN 0
    ELSE (IF x % 2 = 1 /\ y % 2 = 1 THEN 1 ELSE 0) + 2 * BitAnd(x \div 2, y \div 2)

\* is_power_of_two: (x & (x - 1)) == 0, with x - 1 wrapping at 0.
is_power_of_two(x) == BitAnd(x, (x - 1) % Modulus) = 0

\* A faulty align: pushes by a whole alignment instead of by a - m.
align_whole_step(pointer, alignment) ==
    LET p == pointer
        a == alignment
        m == BitAnd(p, (a - 1) % Modulus)
    IN  IF m # 0 THEN (p + a) % Modulus ELSE p

\* A faulty align: pulls the address back to the multiple below it.
align_down(pointer, alignment) ==
    LET p == pointer
        a == alignment
        m == BitAnd(p, (a - 1) % Modulus)
    IN  IF m # 0 THEN (p - m) % Modulus ELSE p

\* align without its assertion: p pushed to the next multiple of alignment.
align(pointer, alignment) ==
    LET p == pointer
        a == alignment
        m == BitAnd(p, (a - 1) % Modulus)
    IN  IF m # 0 THEN (p + ((a - m) % Modulus)) % Modulus ELSE p

\* The true powers of two a size_t holds.
PowersOfTwo == { 2 ^ k : k \in 0 .. (WordBits - 1) }

\* ----------------------------------------------------------------- state
VARIABLES
    arena,        \* the Arena struct: buffer (start address), buffer_length,
                  \* previous_offset, current_offset
    mem,          \* the addresses whose byte is not zero
    checkpoints,  \* the caller's Arena_Checkpoint variables
    call,         \* the latest call: op, its name; ret, an allocation's result
                  \* or the variable a checkpoint was stored in or restored
                  \* from; size and
                  \* alignment, the request of a granted allocation; note,
                  \* "cleared" when the zero-fill overwrote a non-zero byte,
                  \* "immediate" when a restore directly follows the capture
                  \* of its checkpoint, "repeated" when it directly follows a
                  \* restore of the same variable, "rewound" when a reset
                  \* moved an offset
    live,         \* regions <<offset, size>> of at least one byte granted since
                  \* the latest init, reset or restore
    status,       \* "ready"; "fault": the process was killed by a memory fault;
                  \* "corrupt": memset wrote outside the buffer and returned,
                  \* after which the process is not followed further;
                  \* "trap": an assertion stopped the process
    script        \* the caller's position in a scripted scenario

vars == <<arena, mem, checkpoints, call, live, status, script>>

\* Caller-owned storage an arena can be bound to: it starts above the null
\* address and its one-past-the-end address is representable.
Storage(lengths) ==
    { b \in [buffer : 1 .. (Modulus - 1), buffer_length : lengths] :
        b.buffer + b.buffer_length < Modulus }

\* The buffers of the general specification: low ones and ones that end at the
\* top of the address space.
Buffers ==
    { b \in Storage(1 .. MaxLen) :
        \/ b.buffer <= MaxBase
        \/ b.buffer + b.buffer_length = Modulus - 1 }

\* Request sizes: the small ones and the ones near the top of size_t.
Sizes == (0 .. (MaxLen + 1)) \cup ((Modulus - MaxLen - 1) .. (Modulus - 1))

Called(op, ret, note) ==
    [op |-> op, ret |-> ret, size |-> NULL, alignment |-> NULL, note |-> note]
Granted(offset, size, alignment, note) ==
    [op |-> "alloc", ret |-> offset, size |-> size, alignment |-> alignment,
     note |-> note]

\* ------------------------------------------------------------ operations
\* arena_init as a value: the arena bound to buffer b, both offsets zero.
arena_init_value(b) ==
    [buffer |-> b.buffer, buffer_length |-> b.buffer_length,
     current_offset |-> 0, previous_offset |-> 0]

\* A faulty offset: the cursor itself, not aligned.
alloc_offset_unaligned(a, alignment) == a.current_offset

\* arena_alloc_align, lines 39-41: the aligned offset of the next allocation.
alloc_offset(a, alignment) ==
    LET current_pointer == (a.buffer + a.current_offset) % Modulus
    IN  (align(current_pointer, alignment) - a.buffer) % Modulus

\* arena_alloc_align, line 44: the capacity check, in word arithmetic.
alloc_fits(a, size, alignment) ==
    (alloc_offset(a, alignment) + size) % Modulus <= a.buffer_length

\* arena_alloc_align, lines 45-47: the arena after a granted request.
alloc_arena(a, size, alignment) ==
    LET offset == alloc_offset(a, alignment)
    IN  [a EXCEPT !.previous_offset = offset,
                  !.current_offset = (offset + size) % Modulus]

\* arena_alloc_align, lines 45 and 49: p = &arena->buffer[offset] and the
\* addresses memset(p, 0, size) writes.
alloc_pointer(a, offset) == (a.buffer + offset) % Modulus
alloc_range(p, size) == { (p + k) % Modulus : k \in 0 .. (size - 1) }

\* A faulty zero-fill: one byte short.
alloc_memset_short(m, p, size) == m \ alloc_range(p, size - 1)

\* arena_alloc_align, line 49: memory after memset(p, 0, size).
alloc_memset(m, p, size) == m \ alloc_range(p, size)

\* A faulty reset: previous_offset is left as it was.
arena_free_keeps_previous(a) == [a EXCEPT !.current_offset = 0]

\* arena_free as a value.
arena_free_value(a) == [a EXCEPT !.current_offset = 0, !.previous_offset = 0]

\* A faulty capture: current_offset saved in both fields.
arena_create_checkpoint_one_field(a, first) ==
    [previous_offset |-> a.current_offset,
     current_offset |-> a.current_offset,
     at_init |-> first]

\* arena_create_checkpoint as a value (the checkpoint's arena pointer is the
\* one arena of the model); at_init notes a capture made right after init.
arena_create_checkpoint_value(a, first) ==
    [previous_offset |-> a.previous_offset,
     current_offset |-> a.current_offset,
     at_init |-> first]

\* A faulty restore: current_offset is not written back.
arena_restore_previous_only(a, checkpoint) ==
    [a EXCEPT !.previous_offset = checkpoint.previous_offset]

\* A faulty restore: it only ever moves the cursor back.
arena_restore_never_forward(a, checkpoint) ==
    IF checkpoint.current_offset > a.current_offset
    THEN a
    ELSE [a EXCEPT !.previous_offset = checkpoint.previous_offset,
                   !.current_offset = checkpoint.current_offset]

\* A faulty restore: it rewinds to the start of the buffer, as a reset does.
arena_restore_rewinds_all(a, checkpoint) ==
    [a EXCEPT !.previous_offset = 0, !.current_offset = 0]

\* arena_restore as a value.
arena_restore_value(a, checkpoint) ==
    [a EXCEPT !.previous_offset = checkpoint.previous_offset,
              !.current_offset = checkpoint.current_offset]

\* -------------------------------------------------------------- actions
\* The state right after arena_init(&arena, b, length) on zero-filled static
\* storage (main.c's global_arena_buffer).
Bound(b) ==
    /\ arena = arena_init_value(b)
    /\ mem = {}
    /\ checkpoints = [v \in CheckpointVars |-> NoCheckpoint]
    /\ call = Called("init", NULL, "")
    /\ live = {}
    /\ status = "ready"

\* arena_init on a Ready arena: rebinds it. It knows nothing of the caller's
\* checkpoint variables, which the caller drops or keeps.
arena_init(b) ==
    /\ status = "ready"
    /\ arena' = arena_init_value(b)
    /\ mem' = mem
    /\ call' = Called("init", NULL, "")
    /\ live' = {}
    /\ UNCHANGED status

\* The caller drops the checkpoints it took before a re-init: they must not be
\* restored afterwards.
checkpoints_dropped == checkpoints' = [v \in CheckpointVars |-> NoCheckpoint]

\* A faulty arena_alloc_align: previous_offset is stored before the capacity
\* check, so a refused request moves it.
arena_alloc_align_early_store(size, alignment) ==
    /\ status = "ready"
    /\ LET offset == alloc_offset(arena, alignment)
       IN  IF ~is_power_of_two(alignment)
           THEN /\ status' = "trap"
                /\ call' = Called("trap", NULL, "")
                /\ UNCHANGED <<arena, mem, checkpoints, live>>
           ELSE
           IF alloc_fits(arena, size, alignment)
           THEN /\ arena' = alloc_arena(arena, size, alignment)
                /\ mem' = alloc_memset(mem, alloc_pointer(arena, offset), size)
                /\ call' = Granted(offset, size, alignment,
                                   IF mem' # mem THEN "cleared" ELSE "")
                /\ live' = IF size = 0 THEN live ELSE live \cup {<<offset, size>>}
                /\ IF offset + size <= arena.buffer_length
                   THEN status' = "ready"
                   ELSE status' \in {"fault", "corrupt"}
                /\ UNCHANGED checkpoints
           ELSE /\ arena' = [arena EXCEPT !.previous_offset = offset]
                /\ call' = Called("alloc", NULL, "")
                /\ UNCHANGED <<mem, checkpoints, live, status>>

\* arena_alloc_align(arena, size, alignment). align's assertion (arena.c line
\* 22, compiled in unless the build defines NDEBUG) stops the process before
\* anything is written when is_power_of_two rejects the alignment.
\* A granted request whose range leaves the buffer makes memset write out of
\* bounds: the process faults, or the call returns over corrupted memory.
arena_alloc_align(size, alignment) ==
    /\ status = "ready"
    /\ LET offset == alloc_offset(arena, alignment)
       IN  IF ~is_power_of_two(alignment)
           THEN /\ status' = "trap"
                /\ call' = Called("trap", NULL, "")
                /\ UNCHANGED <<arena, mem, checkpoints, live>>
           ELSE
           IF alloc_fits(arena, size, alignment)
           THEN /\ arena' = alloc_arena(arena, size, alignment)
                /\ mem' = alloc_memset(mem, alloc_pointer(arena, offset), size)
                /\ call' = Granted(offset, size, alignment,
                                   IF mem' # mem THEN "cleared" ELSE "")
                /\ live' = IF size = 0 THEN live ELSE live \cup {<<offset, size>>}
                /\ IF offset + size <= arena.buffer_length
                   THEN status' = "ready"
                   ELSE status' \in {"fault", "corrupt"}
                /\ UNCHANGED checkpoints
           ELSE /\ call' = Called("alloc", NULL, "")
                /\ UNCHANGED <<arena, mem, checkpoints, live, status>>

\* arena_alloc(arena, size).
arena_alloc(size) == arena_alloc_align(size, DEFAULT_ALIGNMENT)

\* A faulty reset: the checkpoints are rewound with the arena, as if they
\* referred to its fields instead of holding copies.
arena_free_aliased ==
    /\ status = "ready"
    /\ arena' = arena_free_value(arena)
    /\ call' = Called("free", NULL, IF arena' # arena THEN "rewound" ELSE "")
    /\ live' = {}
    /\ checkpoints' =
         [v \in CheckpointVars |->
            IF checkpoints[v] = NoCheckpoint
            THEN NoCheckpoint
            ELSE [checkpoints[v] EXCEPT !.previous_offset = 0, !.current_offset = 0]]
    /\ UNCHANGED <<mem, status>>

\* arena_free(arena).
arena_free ==
    /\ status = "ready"
    /\ arena' = arena_free_value(arena)
    /\ call' = Called("free", NULL, IF arena' # arena THEN "rewound" ELSE "")
    /\ live' = {}
    /\ UNCHANGED <<mem, checkpoints, status>>

\* checkpoint = arena_create_checkpoint(arena), stored in the caller's checkpoint
\* variable v.
arena_create_checkpoint(v) ==
    /\ status = "ready"
    /\ checkpoints' =
         [checkpoints EXCEPT ![v] = arena_create_checkpoint_value(arena, call.op = "init")]
    /\ call' = Called("checkpoint", v, "")
    /\ UNCHANGED <<arena, mem, live, status>>

\* A faulty restore: it zeroes the bytes it reclaims.
arena_restore_scrubbing(v) ==
    /\ status = "ready"
    /\ checkpoints[v] # NoCheckpoint
    /\ arena' = arena_restore_value(arena, checkpoints[v])
    /\ call' = Called("restore", v,
                      IF call.op = "checkpoint" /\ call.ret = v THEN "immediate"
                      ELSE IF call.op = "restore" /\ call.ret = v THEN "repeated"
                      ELSE "")
    /\ live' = {}
    /\ mem' = alloc_memset(mem, alloc_pointer(arena, checkpoints[v].current_offset),
                           arena.current_offset - checkpoints[v].current_offset)
    /\ UNCHANGED <<checkpoints, status>>

\* arena_restore(checkpoint) of the caller's checkpoint variable v.
arena_restore(v) ==
    /\ status = "ready"
    /\ checkpoints[v] # NoCheckpoint
    /\ arena' = arena_restore_value(arena, checkpoints[v])
    /\ call' = Called("restore", v,
                      IF call.op = "checkpoint" /\ call.ret = v THEN "immediate"
                      ELSE IF call.op = "restore" /\ call.ret = v THEN "repeated"
                      ELSE "")
    /\ live' = {}
    /\ UNCHANGED <<mem, checkpoints, status>>

\* The caller stores a non-zero byte at offset i of a region it was granted
\* (main.c fills what it allocates, e.g. read_file's fread).
caller_write(i) ==
    /\ status = "ready"
    /\ i < arena.buffer_length
    /\ \E r \in live : r[1] <= i /\ i < r[1] + r[2]
    /\ alloc_pointer(arena, i) \notin mem
    /\ mem' = mem \cup {alloc_pointer(arena, i)}
    /\ call' = Called("write", NULL, "")
    /\ UNCHANGED <<arena, checkpoints, live, status>>

\* ------------------------------------------------- general specification
\* Any sequence of init, allocate, reset, checkpoint and restore, the caller
\* holding one checkpoint variable.
NoScript ==
    [pc |-> "none", step |-> 0, alignment |-> NULL, first |-> NULL,
     total |-> NULL, used |-> NULL, kept |-> {}, saved |-> <<>>, reclaimed |-> 0]

Init ==
    /\ \E b \in Buffers : Bound(b)
    /\ script = NoScript

Next ==
    \/ \E b \in Buffers : arena_init(b) /\ checkpoints_dropped /\ UNCHANGED script
    \/ \E size \in Sizes, alignment \in PowersOfTwo :
          arena_alloc_align(size, alignment) /\ UNCHANGED script
    \/ arena_free /\ UNCHANGED script
    \/ arena_create_checkpoint("main") /\ UNCHANGED script
    \/ arena_restore("main") /\ UNCHANGED script

Spec == Init /\ [][Next]_vars

\* ------------------------------------------------ the buffer's contents
\* One buffer length and one checkpoint variable; the caller also writes into
\* the regions it was granted.
MemBuffers == { b \in Buffers : b.buffer <= MaxBase /\ b.buffer_length = MaxLen }
MemSizes == 0 .. MaxLen
MemAlignments == { a \in PowersOfTwo : a <= MaxLen }

InitMem ==
    /\ \E b \in MemBuffers : Bound(b)
    /\ script = NoScript

NextMem ==
    \/ \E b \in MemBuffers : arena_init(b) /\ checkpoints_dropped /\ UNCHANGED script
    \/ \E size \in MemSizes, alignment \in MemAlignments :
          arena_alloc_align(size, alignment) /\ UNCHANGED script
    \/ arena_free /\ UNCHANGED script
    \/ arena_create_checkpoint("main") /\ UNCHANGED script
    \/ arena_restore("main") /\ UNCHANGED script
    \/ \E i \in 0 .. (MaxLen - 1) : caller_write(i) /\ UNCHANGED script

SpecMem == InitMem /\ [][NextMem]_vars

\* ------------------------------------------------- reclaiming a scope
\* The caller allocates freely, captures a checkpoint, makes at least one
\* granted allocation with one alignment, restores the checkpoint and asks for
\* the reclaimed bytes in one request of the same alignment. script.total is
\* the cursor's advance since the checkpoint; script.used is the advance since
\* the start of the first region granted after it.
InitReclaim ==
    /\ \E b \in Buffers : Bound(b)
    /\ script = [NoScript EXCEPT !.pc = "before"]

ReclaimPrepare ==
    /\ script.pc = "before"
    /\ \E size \in Sizes, alignment \in PowersOfTwo : arena_alloc_align(size, alignment)
    /\ UNCHANGED script

ReclaimCheckpoint ==
    /\ script.pc = "before"
    /\ arena_create_checkpoint("main")
    /\ \E alignment \in PowersOfTwo :
          script' = [script EXCEPT !.pc = "scope", !.alignment = alignment]

ReclaimAllocate ==
    /\ script.pc = "scope"
    /\ \E size \in Sizes : arena_alloc_align(size, script.alignment)
    /\ script' = IF call'.ret # NULL /\ script.first = NULL
                 THEN [script EXCEPT !.first = call'.ret]
                 ELSE script

ReclaimRestore ==
    /\ script.pc = "scope"
    /\ script.first # NULL
    /\ arena_restore("main")
    /\ script' =
         [script EXCEPT
            !.pc = "restored",
            !.total = (arena.current_offset - checkpoints["main"].current_offset) % Modulus,
            !.used = (arena.current_offset - script.first) % Modulus]

ReclaimTotal ==
    /\ script.pc = "restored"
    /\ arena_alloc_align(script.total, script.alignment)
    /\ script' = [script EXCEPT !.pc = "asked total"]

ReclaimUsed ==
    /\ script.pc = "restored"
    /\ arena_alloc_align(script.used, script.alignment)
    /\ script' = [script EXCEPT !.pc = "asked used"]

NextReclaim ==
    \/ ReclaimPrepare
    \/ ReclaimCheckpoint
    \/ ReclaimAllocate
    \/ ReclaimRestore
    \/ ReclaimTotal
    \/ ReclaimUsed

SpecReclaim == InitReclaim /\ [][NextReclaim]_vars

\* --------------------------------------------------- the 64-byte scenario
\* A 64-byte buffer at any address; the calls use the default alignment.
Scenario ==
    [length |-> 64,
     calls |-> << [op |-> "alloc", size |-> 10], [op |-> "alloc", size |-> 5],
                  [op |-> "checkpoint", size |-> 0], [op |-> "alloc", size |-> 50],
                  [op |-> "restore", size |-> 0], [op |-> "alloc", size |-> 40],
                  [op |-> "alloc", size |-> 30] >>]

ScenarioNext == Scenario.calls[script.step + 1]

InitScenario ==
    /\ \E b \in Storage({Scenario.length}) : Bound(b)
    /\ script = [NoScript EXCEPT !.pc = "scenario"]

ScenarioAlloc ==
    /\ script.step < Len(Scenario.calls)
    /\ ScenarioNext.op = "alloc"
    /\ arena_alloc(ScenarioNext.size)
    /\ script' = [script EXCEPT !.step = @ + 1]

ScenarioCheckpoint ==
    /\ script.step < Len(Scenario.calls)
    /\ ScenarioNext.op = "checkpoint"
    /\ arena_create_checkpoint("main")
    /\ script' = [script EXCEPT !.step = @ + 1]

ScenarioRestore ==
    /\ script.step < Len(Scenario.calls)
    /\ ScenarioNext.op = "restore"
    /\ arena_restore("main")
    /\ script' = [script EXCEPT !.step = @ + 1]

NextScenario ==
    \/ ScenarioAlloc
    \/ ScenarioCheckpoint
    \/ ScenarioRestore

SpecScenario == InitScenario /\ [][NextScenario]_vars

\* ------------------------------------------- two checkpoint variables
\* Any sequence of the operations, the caller holding two checkpoint variables
\* that it captures and restores in any order, on one buffer length.
InitCheckpoints ==
    /\ \E b \in MemBuffers : Bound(b)
    /\ script = NoScript

NextCheckpoints ==
    \/ \E b \in MemBuffers : arena_init(b) /\ checkpoints_dropped /\ UNCHANGED script
    \/ \E size \in MemSizes, alignment \in MemAlignments :
          arena_alloc_align(size, alignment) /\ UNCHANGED script
    \/ arena_free /\ UNCHANGED script
    \/ \E v \in CheckpointVars : arena_create_checkpoint(v) /\ UNCHANGED script
    \/ \E v \in CheckpointVars : arena_restore(v) /\ UNCHANGED script

SpecCheckpoints == InitCheckpoints /\ [][NextCheckpoints]_vars

\* ------------------------------------------------ any alignment value
\* Init, allocate and reset in any order, allocate being called with alignments
\* that are not all powers of two; script.alignment is the alignment of the
\* latest allocate call. The caller writes into the regions it was granted.
Alignments == 0 .. (MaxLen + 2)

InitDebug ==
    /\ \E b \in MemBuffers : Bound(b)
    /\ script = [NoScript EXCEPT !.pc = "debug"]

DebugAllocate ==
    \E size \in MemSizes, alignment \in Alignments :
       /\ arena_alloc_align(size, alignment)
       /\ script' = [script EXCEPT !.alignment = alignment]

NextDebug ==
    \/ \E b \in MemBuffers : arena_init(b) /\ checkpoints_dropped /\ UNCHANGED script
    \/ DebugAllocate
    \/ arena_free /\ UNCHANGED script
    \/ \E i \in 0 .. (MaxLen - 1) : caller_write(i) /\ UNCHANGED script

SpecDebug == InitDebug /\ [][NextDebug]_vars

\* ------------------------------------------------- a stale checkpoint
\* The caller captures a checkpoint, then the arena is rebound by init or
\* rewound by reset while the caller keeps the checkpoint, and the caller
\* restores it. Allocations come in between.
StaleBuffers == { b \in Buffers : b.buffer <= MaxBase }

InitStale ==
    /\ \E b \in StaleBuffers : Bound(b)
    /\ script = [NoScript EXCEPT !.pc = "fresh"]

StaleAllocate ==
    /\ script.pc \in {"fresh", "held", "stale"}
    /\ \E size \in MemSizes, alignment \in MemAlignments :
          arena_alloc_align(size, alignment)
    /\ UNCHANGED script

StaleCheckpoint ==
    /\ script.pc = "fresh"
    /\ arena_create_checkpoint("main")
    /\ script' = [script EXCEPT !.pc = "held"]

StaleInit ==
    /\ script.pc = "held"
    /\ \E b \in StaleBuffers : arena_init(b)
    /\ UNCHANGED checkpoints
    /\ script' = [script EXCEPT !.pc = "stale"]

StaleFree ==
    /\ script.pc = "held"
    /\ arena_free
    /\ script' = [script EXCEPT !.pc = "stale"]

StaleRestore ==
    /\ script.pc = "stale"
    /\ arena_restore("main")
    /\ script' = [script EXCEPT !.pc = "restored"]

NextStale ==
    \/ StaleAllocate
    \/ StaleCheckpoint
    \/ StaleInit
    \/ StaleFree
    \/ StaleRestore

SpecStale == InitStale /\ [][NextStale]_vars

\* ------------------------------------------------- what a call leaves alone
\* Allocate, reset and checkpoint in any order, with small requests and
\* requests of SIZE_MAX bytes, the caller writing into the regions it was
\* granted.
FrameSizes == MemSizes \cup {Modulus - 1}

InitFrame ==
    /\ \E b \in MemBuffers : Bound(b)
    /\ script = NoScript

NextFrame ==
    \/ \E size \in FrameSizes, alignment \in MemAlignments :
          arena_alloc_align(size, alignment) /\ UNCHANGED script
    \/ arena_free /\ UNCHANGED script
    \/ arena_create_checkpoint("main") /\ UNCHANGED script
    \/ \E i \in 0 .. (MaxLen - 1) : caller_write(i) /\ UNCHANGED script

SpecFrame == InitFrame /\ [][NextFrame]_vars

\* The operations in any order, the caller writing into the regions it was
\* granted and keeping its checkpoint variable across a re-init.
InitKept ==
    /\ \E b \in MemBuffers : Bound(b)
    /\ script = NoScript

NextKept ==
    \/ \E b \in MemBuffers : arena_init(b) /\ UNCHANGED <<checkpoints, script>>
    \/ \E size \in MemSizes, alignment \in MemAlignments :
          arena_alloc_align(size, alignment) /\ UNCHANGED script
    \/ arena_free /\ UNCHANGED script
    \/ arena_create_checkpoint("main") /\ UNCHANGED script
    \/ arena_restore("main") /\ UNCHANGED script
    \/ \E i \in 0 .. (MaxLen - 1) : caller_write(i) /\ UNCHANGED script

SpecKept == InitKept /\ [][NextKept]_vars

\* ------------------------------------------------------ align by itself
\* align applied to any address and any power-of-two alignment: script.first
\* is the address, script.alignment the alignment, script.total the result.
InitAlign ==
    /\ \E b \in MemBuffers : Bound(b)
    /\ \E pointer \in 0 .. (Modulus - 1), alignment \in PowersOfTwo :
          script = [NoScript EXCEPT !.pc = "align", !.first = pointer,
                                    !.alignment = alignment]

AlignCall ==
    /\ script.pc = "align"
    /\ script' = [script EXCEPT !.pc = "aligned",
                                !.total = align(script.first, script.alignment)]
    /\ UNCHANGED <<arena, mem, checkpoints, call, live, status>>

NextAlign == AlignCall

SpecAlign == InitAlign /\ [][NextAlign]_vars

\* ---------------------------------------------------- nested scopes
\* main.c's use of checkpoints: main captures one, allocates, and calls
\* find_queue_families any number of times, which captures its own, allocates
\* and restores it before returning; then main restores its own. Both assert
\* that what they allocated is not NULL. Allocations are also made outside the
\* scopes. script.kept holds the regions granted and not rolled back,
\* script.saved what the arena's offsets and script.kept were when each open
\* scope began, script.reclaimed the number of regions the latest restore
\* rolled back.
InitNested ==
    /\ \E b \in StaleBuffers : Bound(b)
    /\ script = [NoScript EXCEPT !.pc = "outside"]

NestedGranted ==
    IF call'.ret # NULL /\ call'.size > 0
    THEN script.kept \cup {<<call'.ret, call'.size>>}
    ELSE script.kept

NestedSave ==
    [previous_offset |-> arena.previous_offset,
     current_offset |-> arena.current_offset,
     kept |-> script.kept]

NestedAsserted == ~(script.pc # "outside" /\ call.op = "alloc" /\ call.ret = NULL)

NestedAllocate ==
    /\ NestedAsserted
    /\ \E size \in MemSizes, alignment \in MemAlignments :
          arena_alloc_align(size, alignment)
    /\ script' = [script EXCEPT !.kept = NestedGranted]

NestedAssert ==
    /\ status = "ready"
    /\ ~NestedAsserted
    /\ status' = "trap"
    /\ call' = Called("trap", NULL, "")
    /\ UNCHANGED <<arena, mem, checkpoints, live, script>>

NestedMainCheckpoint ==
    /\ script.pc = "outside"
    /\ arena_create_checkpoint("main")
    /\ script' = [script EXCEPT !.pc = "main", !.saved = <<NestedSave>>]

NestedFqfCheckpoint ==
    /\ script.pc = "main"
    /\ NestedAsserted
    /\ arena_create_checkpoint("find_queue_families")
    /\ script' = [script EXCEPT !.pc = "find_queue_families",
                                !.saved = Append(@, NestedSave)]

NestedFqfRestore ==
    /\ script.pc = "find_queue_families"
    /\ NestedAsserted
    /\ arena_restore("find_queue_families")
    /\ script' = [script EXCEPT
                    !.pc = "main",
                    !.kept = script.saved[2].kept,
                    !.reclaimed = Cardinality(script.kept \ script.saved[2].kept),
                    !.saved = <<script.saved[1]>>]

NestedMainRestore ==
    /\ script.pc = "main"
    /\ NestedAsserted
    /\ arena_restore("main")
    /\ script' = [script EXCEPT
                    !.pc = "outside",
                    !.kept = script.saved[1].kept,
                    !.reclaimed = Cardinality(script.kept \ script.saved[1].kept),
                    !.saved = <<>>]

NextNested ==
    \/ NestedAllocate
    \/ NestedAssert
    \/ NestedMainCheckpoint
    \/ NestedFqfCheckpoint
    \/ NestedFqfRestore
    \/ NestedMainRestore

SpecNested == InitNested /\ [][NextNested]_vars

\* ----------------------------------------------------------------- claims
\* C1: in every state of the running process reached by init, allocate (any
\* size, any power-of-two alignment), checkpoint, restore, reset and re-init,
\* 0 <= previous_offset <= current_offset <= buffer_length.
C1_OffsetsOrdered ==
    status # "fault" =>
        /\ 0 <= arena.previous_offset
        /\ arena.previous_offset <= arena.current_offset
        /\ arena.current_offset <= arena.buffer_length

\* C2: an allocate that returns NULL leaves buffer, buffer_length,
\* previous_offset, current_offset and the buffer's bytes as they were, so a
\* later request is aligned from the same cursor and checked against the same
\* capacity as before the call: one that fitted still fits.
C2_FailedAllocChangesNothing ==
    [][(call'.op = "alloc" /\ call'.ret = NULL)
       => /\ arena' = arena
          /\ mem' = mem
          /\ \A a \in PowersOfTwo : alloc_offset(arena', a) = alloc_offset(arena, a)]_vars

\* C2's case: an allocation has just failed with the cursor advanced, and a
\* smaller request still fits.
C2_Witness ==
    /\ call.op = "alloc" /\ call.ret = NULL /\ status = "ready"
    /\ arena.current_offset > 0
    /\ \E s \in Sizes, a \in PowersOfTwo : s > 0 /\ alloc_fits(arena, s, a)

\* C3: the regions that allocate returned since the latest init, reset or
\* restore are pairwise disjoint and each lies within [0, buffer_length).
C3_LiveRegionsDisjointInBuffer ==
    status # "fault" =>
        /\ \A r \in live : r[1] + r[2] <= arena.buffer_length
        /\ \A r1, r2 \in live :
              r1 # r2 => (r1[1] + r1[2] <= r2[1] \/ r2[1] + r2[2] <= r1[1])

\* C4: a granted request's address, buffer start + returned offset, is a
\* multiple of the requested power-of-two alignment.
C4_GrantedAddressAligned ==
    (call.op = "alloc" /\ call.ret # NULL)
    => (arena.buffer + call.ret) % call.alignment = 0

\* C4's case: a request with an alignment above 1 was granted at an offset that
\* is not a multiple of it, the buffer not starting on a multiple either.
C4_Witness ==
    /\ call.op = "alloc" /\ call.ret # NULL /\ status = "ready"
    /\ call.alignment > 1
    /\ call.ret % call.alignment # 0
    /\ call.size > 0

\* C5: when a granted allocate has returned, every byte of
\* [aligned_offset, aligned_offset + size) is zero, bytes written through an
\* allocation that was rolled back included.
C5_GrantedRangeIsZero ==
    (call.op = "alloc" /\ call.ret # NULL /\ status # "fault")
    => alloc_range(alloc_pointer(arena, call.ret), call.size) \cap mem = {}

\* C5's case: after a restore or a reset a request was granted over bytes the
\* caller had written, and the zero-fill cleared them.
C5_Witness ==
    /\ call.op = "alloc" /\ call.ret # NULL /\ call.note = "cleared"
    /\ call.size > 1
    /\ status = "ready"

\* C6: allocate grants a request only if the true sum aligned offset + size is
\* at most buffer_length; otherwise it returns NULL.
C6_NoGrantBeyondCapacity ==
    (call.op = "alloc" /\ call.ret # NULL)
    => call.ret + call.size <= arena.buffer_length

\* C7: after a checkpoint, granted allocations of one alignment that advance
\* the cursor by S bytes from the checkpointed current_offset, and the restore
\* of the checkpoint, a single request of S bytes with that alignment is
\* granted.
C7_ReclaimsCursorAdvance ==
    script.pc = "asked total" => call.ret # NULL

\* C7 as amended: S is counted from the start of the first region granted after
\* the checkpoint, leaving out the padding in front of it.
C7_ReclaimsFromFirstRegion ==
    script.pc = "asked used" => call.ret # NULL

\* C7's case: the scope's first region began after alignment padding, and the
\* single request for the bytes behind that padding was granted.
C7_Witness ==
    /\ script.pc = "asked used"
    /\ call.ret # NULL
    /\ script.used > 1
    /\ script.total > script.used
    /\ status = "ready"

\* The outcomes C8 lists, step by step.
ScenarioOutcome ==
    /\ script.step = 1 => (call.ret = 0 /\ arena.current_offset = 10)
    /\ script.step = 2 => (call.ret = 16 /\ arena.current_offset = 21)
    /\ script.step = 3 => /\ checkpoints["main"].previous_offset = 16
                          /\ checkpoints["main"].current_offset = 21
    /\ script.step \in {4, 5, 6} => /\ arena.previous_offset = 16
                                    /\ arena.current_offset = 21
    /\ script.step \in {4, 6} => call.ret = NULL
    /\ script.step = 7 => /\ call.ret = 32
                          /\ arena.previous_offset = 32
                          /\ arena.current_offset = 62

\* C8: on a 64-byte buffer at any address, allocate(10), allocate(5),
\* checkpoint, allocate(50), restore, allocate(40), allocate(30) with the
\* default alignment 16 give the listed offsets and failures.
C8_ScenarioAtAnyAddress ==
    script.pc = "scenario" => ScenarioOutcome

\* C8 as amended: the scenario's outcomes are those of a buffer whose start
\* address is a multiple of 16.
C8_ScenarioAtAlignedAddress ==
    (script.pc = "scenario" /\ arena.buffer % DEFAULT_ALIGNMENT = 0) => ScenarioOutcome

\* C8's case: the scenario has run to its last call on an aligned buffer.
C8_Witness ==
    /\ script.pc = "scenario"
    /\ script.step = Len(Scenario.calls)
    /\ arena.buffer % DEFAULT_ALIGNMENT = 0
    /\ call.ret = 32

\* C9: capturing a checkpoint changes nothing of the arena, and restoring it
\* right away gives back the arena as it was, so that every following request
\* has the result and the resulting offsets it would have had without the pair.
C9_CheckpointRestoreIsNoOp ==
    [][/\ call'.op = "checkpoint" => (arena' = arena /\ mem' = mem)
       /\ (call'.op = "restore" /\ call'.note = "immediate")
          => /\ arena' = arena
             /\ mem' = mem
             /\ \A s \in Sizes, a \in PowersOfTwo :
                   /\ alloc_fits(arena', s, a) = alloc_fits(arena, s, a)
                   /\ alloc_arena(arena', s, a) = alloc_arena(arena, s, a)]_vars

\* C9's case: a checkpoint taken after allocations was restored right away.
C9_Witness ==
    /\ call.op = "restore" /\ call.note = "immediate"
    /\ 0 < arena.previous_offset
    /\ arena.previous_offset < arena.current_offset

\* C10: reset sets both offsets to 0, which is the arena that restoring a
\* checkpoint captured right after init would have given instead.
C10_ResetIsRestoreOfInitialCheckpoint ==
    [][call'.op = "free"
       => /\ arena'.current_offset = 0
          /\ arena'.previous_offset = 0
          /\ \A v \in CheckpointVars :
                checkpoints[v].at_init
                => arena' = arena_restore_value(arena, checkpoints[v])]_vars

\* C10's case: a reset rewound the arena while the caller held a checkpoint
\* captured right after init.
C10_Witness ==
    /\ call.op = "free" /\ call.note = "rewound"
    /\ \E v \in CheckpointVars : checkpoints[v].at_init

\* C11: restore(c) sets previous_offset and current_offset to exactly the pair
\* saved in c, whatever allocations, resets or restores came since c was
\* captured (an older checkpoint restored after a newer one included), and
\* restoring the same checkpoint again right away changes nothing.
C11_RestoreSetsSavedPair ==
    [][\A v \in CheckpointVars :
          (call'.op = "restore" /\ call'.ret = v)
          => /\ arena'.previous_offset = checkpoints[v].previous_offset
             /\ arena'.current_offset = checkpoints[v].current_offset
             /\ call'.note = "repeated" => arena' = arena]_vars

\* C11's case: the older checkpoint was restored twice in a row after a newer
\* one had been captured beyond it, so the first of the two restores discarded
\* what the newer one covered.
C11_Witness ==
    /\ call.op = "restore" /\ call.ret = "main" /\ call.note = "repeated"
    /\ checkpoints["find_queue_families"] # NoCheckpoint
    /\ checkpoints["find_queue_families"].current_offset > arena.current_offset
    /\ arena.current_offset > 0

\* C12: with the assertion compiled in, an allocate whose alignment is not a
\* power of two (0 included) stops at the assertion of align, and no arena
\* field and no byte has changed.
C12_BadAlignmentTraps ==
    [][(call'.op \in {"alloc", "trap"} /\ script'.alignment \notin PowersOfTwo)
       => /\ status' = "trap"
          /\ arena' = arena
          /\ mem' = mem]_vars

\* C13: with the assertions compiled in, restoring a checkpoint after the arena
\* was rebound by init or rewound by reset stops the process at a trap, the
\* arena's offsets not being overwritten.
C13_StaleRestoreTraps ==
    [][(script.pc = "stale" /\ script'.pc = "restored")
       => /\ status' = "trap"
          /\ arena'.previous_offset = arena.previous_offset
          /\ arena'.current_offset = arena.current_offset]_vars

\* The bytes of the buffer, by offset, that are not zero.
BufferBytes(a, m) == { i \in 0 .. (a.buffer_length - 1) : alloc_pointer(a, i) \in m }

\* C14: an allocate that returns a region leaves buffer, buffer_length, every
\* checkpoint and every byte of the buffer outside
\* [aligned_offset, aligned_offset + size) as they were; one that returns NULL
\* leaves everything as it was.
C14_AllocateChangesOnlyItsRegion ==
    [][(call'.op = "alloc" /\ status' # "fault")
       => /\ arena'.buffer = arena.buffer
          /\ arena'.buffer_length = arena.buffer_length
          /\ checkpoints' = checkpoints
          /\ call'.ret = NULL => (arena' = arena /\ mem' = mem)
          /\ call'.ret # NULL
             => \A i \in 0 .. (arena.buffer_length - 1) :
                   (i < call'.ret \/ i >= call'.ret + call'.size)
                   => (i \in BufferBytes(arena', mem') <=> i \in BufferBytes(arena, mem))]_vars

RoundUp(p, a) == CHOOSE q \in p .. (p + a - 1) : q % a = 0

\* C17: for every address and every power-of-two alignment, align returns the
\* smallest value that is at least the address and a multiple of the
\* alignment.
C17_AlignIsSmallestMultiple ==
    script.pc = "aligned" => script.total = RoundUp(script.first, script.alignment)

\* C17 as amended: align returns that smallest multiple whenever a machine word
\* holds it; when the multiple is 2^WordBits the result wraps to 0.
C17_AlignIsSmallestMultipleInWord ==
    script.pc = "aligned"
    => /\ RoundUp(script.first, script.alignment) < Modulus
          => script.total = RoundUp(script.first, script.alignment)
       /\ RoundUp(script.first, script.alignment) = Modulus
          => script.total = 0

\* C17's case: an address that is not a multiple of the alignment was pushed
\* forward to the next multiple.
C17_Witness ==
    /\ script.pc = "aligned"
    /\ script.alignment > 2
    /\ script.first % script.alignment # 0
    /\ script.total > script.first + 1

\* The smallest offset at or after the cursor whose address is a multiple of a.
SmallestAlignedOffset(a, alignment) ==
    RoundUp(a.buffer + a.current_offset, alignment) - a.buffer

\* C18: a granted allocate returns the smallest offset o at or after the
\* pre-call current_offset with buffer + o a multiple of the alignment, sets
\* previous_offset to o and current_offset to o + size; a request of size 0 is
\* granted whenever that offset is at most buffer_length.
C18_GrantedOffsetsAndCursor ==
    [][/\ (call'.op = "alloc" /\ call'.ret # NULL /\ status' # "fault")
          => /\ call'.ret = SmallestAlignedOffset(arena, call'.alignment)
             /\ arena'.previous_offset = call'.ret
             /\ arena'.current_offset = call'.ret + call'.size
       /\ status = "ready"
          => \A alignment \in PowersOfTwo :
                SmallestAlignedOffset(arena, alignment) <= arena.buffer_length
                => /\ alloc_fits(arena, 0, alignment)
                   /\ alloc_arena(arena, 0, alignment).previous_offset
                        = SmallestAlignedOffset(arena, alignment)
                   /\ alloc_arena(arena, 0, alignment).current_offset
                        = SmallestAlignedOffset(arena, alignment)]_vars

\* C19: with checkpoints used in nested scopes as main.c uses them, each
\* restore leaves the arena's offsets at their values of the matching capture,
\* and the regions granted and not rolled back are at every moment pairwise
\* disjoint and inside the buffer, those granted after a restore included.
C19_NestedScopesKeepRegionsApart ==
    [][/\ call'.op = "restore"
          => /\ arena'.previous_offset = script.saved[Len(script.saved)].previous_offset
             /\ arena'.current_offset = script.saved[Len(script.saved)].current_offset
       /\ \A r \in script'.kept : r[1] + r[2] <= arena'.current_offset
       /\ arena'.current_offset <= arena'.buffer_length
       /\ \A r1, r2 \in script'.kept :
             r1 # r2 => (r1[1] + r1[2] <= r2[1] \/ r2[1] + r2[2] <= r1[1])]_vars

\* C19's case: find_queue_families has returned, its restore rolling back
\* what it allocated, while a region of main's scope and one granted before
\* the scope are still held.
C19_Witness ==
    /\ script.pc = "main"
    /\ call.op = "restore" /\ call.ret = "find_queue_families"
    /\ script.reclaimed > 0
    /\ script.saved[1].kept # {}
    /\ script.kept # script.saved[1].kept
    /\ status = "ready"

====
